---- MODULE Spec2Model ----
(***************************************************************************)
(* Model of the OpenMeter -> Resend webhook relay (src/app.py).            *)
(*                                                                         *)
(* One webhook delivery is handled by handle_openmeter.  The handler is    *)
(* synchronous; its two blocking outbound calls (the customer directory    *)
(* GET and the Resend send) are the points where the environment decides   *)
(* an outcome, so the handler is cut into three steps at those calls:      *)
(*   Receive      lines  98-118  (up to the issue of the directory GET)    *)
(*   LookupReturn lines  47-54, 120-201 (GET outcome .. issue of the send) *)
(*   SendReturn   lines 208-212  (send outcome .. the response)            *)
(*                                                                         *)
(* JSON / Python values are tagged records, so that a value of the wrong   *)
(* shape (a string where a dict is expected, ...) is an input like any     *)
(* other and the AttributeError / TypeError it causes is modelled.         *)
(*                                                                         *)
(* Strings are ASCII here: the ellipsis U+2026 is written "...", the em    *)
(* dash U+2014 "--", the bullet U+2022 "*", and the pictographs of the     *)
(* log lines are not modelled (logging is not state).                      *)
(***************************************************************************)
EXTENDS Integers, Sequences, FiniteSets, TLC

VARIABLES
    pc,            \* position of the handler: idle / lookup / send / done
    body,          \* the request body of the delivery being handled
    feature,       \* local of handle_openmeter (line 106)
    subject,       \* local (line 108)
    threshold_val, \* local (line 110)
    balance_left,  \* local (line 111)
    usage_val,     \* local (line 112)
    customer_key,  \* local (line 115)
    customer,      \* local (line 118)
    mail,          \* the params handed to resend.Emails.send (lines 201-207)
    calls,         \* outbound calls of this delivery, in order of issue/return
    response       \* HTTP status returned to the metering service, 0 = none yet

vars == <<pc, body, feature, subject, threshold_val, balance_left, usage_val,
          customer_key, customer, mail, calls, response>>

-----------------------------------------------------------------------------
(* Python / JSON values *)

JNone     == [k |-> "none"]
JStr(s)   == [k |-> "str", s |-> s]
JInt(n)   == [k |-> "int", n |-> n]
\* a float with one decimal digit: w + t/10   (90.0 is JFloat(90, 0))
JFloat(w, t) == [k |-> "float", w |-> w, t |-> t]
JBool(b)  == [k |-> "bool", b |-> b]
JList(l)  == [k |-> "list", l |-> l]
JDict(d)  == [k |-> "dict", d |-> d]

EmptyFn   == [z \in {} |-> JNone]
EmptyDict == JDict(EmptyFn)

\* bool(v)
Truthy(v) ==
    CASE v.k = "none"  -> FALSE
      [] v.k = "str"   -> v.s # ""
      [] v.k = "int"   -> v.n # 0
      [] v.k = "float" -> ~(v.w = 0 /\ v.t = 0)
      [] v.k = "bool"  -> v.b
      [] v.k = "list"  -> v.l # <<>>
      [] v.k = "dict"  -> DOMAIN v.d # {}

\* a or b
Or(a, b) == IF Truthy(a) THEN a ELSE b

\* v has a .get attribute (only dict does; anything else: AttributeError)
HasGet(v) == v.k = "dict"

\* v.get(key), for a dict v
Get(v, key) == IF key \in DOMAIN v.d THEN v.d[key] ELSE JNone

\* v has a .replace attribute (only str does)
HasReplace(v) == v.k = "str"

Min(a, b) == IF a <= b THEN a ELSE b

Digit(d) ==
    CASE d = 0 -> "0" [] d = 1 -> "1" [] d = 2 -> "2" [] d = 3 -> "3"
      [] d = 4 -> "4" [] d = 5 -> "5" [] d = 6 -> "6" [] d = 7 -> "7"
      [] d = 8 -> "8" [] d = 9 -> "9"

\* str(n) for an int n >= 0
RECURSIVE IntStr(_)
IntStr(n) == IF n < 10 THEN Digit(n) ELSE IntStr(n \div 10) \o Digit(n % 10)

\* str(v) / f"{v}" for the scalars the model feeds it
PyStr(v) ==
    CASE v.k = "none"  -> "None"
      [] v.k = "str"   -> v.s
      [] v.k = "int"   -> IntStr(v.n)
      [] v.k = "float" -> IntStr(v.w) \o "." \o Digit(v.t)
      [] v.k = "bool"  -> IF v.b THEN "True" ELSE "False"

\* s.replace("-", "")
RECURSIVE RemoveDashes(_)
RemoveDashes(s) ==
    IF s = "" THEN ""
    ELSE LET c == SubSeq(s, 1, 1)
             r == RemoveDashes(SubSeq(s, 2, Len(s)))
         IN  IF c = "-" THEN r ELSE c \o r

\* s.strip(), for the whitespace the model uses (blanks)
RECURSIVE LStrip(_)
LStrip(s) ==
    IF s # "" /\ SubSeq(s, 1, 1) = " " THEN LStrip(SubSeq(s, 2, Len(s))) ELSE s

RECURSIVE RStrip(_)
RStrip(s) ==
    IF s # "" /\ SubSeq(s, Len(s), Len(s)) = " "
    THEN RStrip(SubSeq(s, 1, Len(s) - 1)) ELSE s

Strip(s) == RStrip(LStrip(s))

-----------------------------------------------------------------------------
(* Configuration (module level of app.py), with the defaults of the source *)

DASHBOARD_URL  == "https://app.nabrah.ai"
SUPPORT_EMAIL  == "support@nabrah.ai"
FALLBACK_EMAIL == "aalguraini@dscan.ai"
OPENMETER_BASE == "https://openmeter.cloud/api/v1"
FROM_ADDRESS   == "Nabrah <no-reply@nabrah.ai>"
THRESHOLD_TYPE == "entitlements.balance.threshold"

\* the marker of a Python exception leaving the function that returns it
Raise   == [k |-> "raise"]
\* a body that is not JSON (request.get_json aborts with 400; r.json() raises)
BadJson == [k |-> "badjson"]

-----------------------------------------------------------------------------
(* Helpers *)

\* r.ok of requests: the status is below 400
ResponseOk(r) == r.status < 400

\* om_get_customer, given what requests.get did: r.exc # "" when it raised
\* (transport error, timeout), else r.status and r.json (BadJson when the
\* body does not parse, which makes r.json() raise inside the try).
om_get_customer(r) ==
    IF r.exc # "" THEN JNone
    ELSE IF ResponseOk(r)
         THEN IF r.json = BadJson THEN JNone ELSE r.json
         ELSE JNone

\* the URL om_get_customer requests
CustomerUrl(key) == OPENMETER_BASE \o "/customers/" \o key

\* pick_email looking at metadata.email before primaryEmail
pick_email_metadata_first(c) ==
    IF ~Truthy(c) THEN [email |-> JStr(FALLBACK_EMAIL), src |-> "fallback(no customer)"]
    ELSE IF ~HasGet(c) THEN Raise
    ELSE LET meta == Or(Get(c, "metadata"), EmptyDict)
         IN  IF meta.k = "dict" /\ Truthy(Get(meta, "email"))
             THEN [email |-> Get(meta, "email"), src |-> "metadata.email"]
             ELSE IF Truthy(Get(c, "primaryEmail"))
             THEN [email |-> Get(c, "primaryEmail"), src |-> "primaryEmail"]
             ELSE [email |-> JStr(FALLBACK_EMAIL), src |-> "fallback(no email)"]

\* pick_email: [email, src], or Raise (customer truthy and not a dict)
pick_email(c) ==
    IF ~Truthy(c) THEN [email |-> JStr(FALLBACK_EMAIL), src |-> "fallback(no customer)"]
    ELSE IF ~HasGet(c) THEN Raise
    ELSE IF Truthy(Get(c, "primaryEmail"))
         THEN [email |-> Get(c, "primaryEmail"), src |-> "primaryEmail"]
    ELSE LET meta == Or(Get(c, "metadata"), EmptyDict)
         IN  IF meta.k = "dict" /\ Truthy(Get(meta, "email"))
             THEN [email |-> Get(meta, "email"), src |-> "metadata.email"]
             ELSE [email |-> JStr(FALLBACK_EMAIL), src |-> "fallback(no email)"]

ProjIdLen == 12

\* project_name_from: JStr(name), or Raise
project_name_from(c, subj) ==
    IF Truthy(c) /\ ~HasGet(c) THEN Raise
    ELSE IF Truthy(c) /\ Truthy(Get(c, "name"))
         THEN JStr(Strip(PyStr(Get(c, "name"))))
    ELSE IF Truthy(subj) /\ ~HasGet(subj) THEN Raise
    ELSE IF Truthy(subj) /\ Truthy(Get(subj, "displayName"))
         THEN JStr(Strip(PyStr(Get(subj, "displayName"))))
    ELSE IF Truthy(subj) /\ Truthy(Get(subj, "id"))
         THEN LET s == PyStr(Get(subj, "id"))
              IN  JStr(SubSeq(s, 1, Min(ProjIdLen, Len(s))) \o "...")
    ELSE JStr("Your project")

\* int(round(val)) for val = w + t/10 >= 0: round half to even
RoundHalfEven(w, t) ==
    IF t < 5 THEN w
    ELSE IF t > 5 THEN w + 1
    ELSE IF w % 2 = 0 THEN w ELSE w + 1

\* nice_minutes: JStr(text), or Raise (round() of a str, list or dict)
nice_minutes(val) ==
    CASE val.k = "none" -> JStr("unknown")
      [] val.k = "int"  ->
            JStr(IntStr(val.n) \o " " \o (IF val.n = 1 THEN "minute" ELSE "minutes"))
      [] val.k = "bool" ->
            JStr(IF val.b THEN "1 minute" ELSE "0 minutes")
      [] val.k = "float" ->
            LET whole == RoundHalfEven(val.w, val.t)
                \* math.isclose(whole, val, rel_tol=0, abs_tol=0.01), in tenths
                close == (whole * 10 = val.w * 10 + val.t)
            IN  IF close
                THEN JStr(IntStr(whole) \o " " \o (IF whole = 1 THEN "minute" ELSE "minutes"))
                ELSE JStr(IntStr(val.w) \o "." \o Digit(val.t) \o "0 minutes")
      [] OTHER -> Raise

-----------------------------------------------------------------------------
(* handle_openmeter *)

NoMail == [k |-> "nomail"]

\* an entry of the record of outbound calls
Call(op, arg) == [op |-> op, arg |-> arg]

\* line 101 with the comparison turned round
IsRelevantInverted(event) == Get(event, "type") # JStr(THRESHOLD_TYPE)

\* line 101 letting the test event through to the threshold path as well
IsRelevantOrTest(event) ==
    Get(event, "type") \in {JStr(THRESHOLD_TYPE), JStr("notification.test")}

\* line 101, negated: the event is one the handler acts on
IsRelevant(event) == Get(event, "type") = JStr(THRESHOLD_TYPE)

\* lines 105-115: the locals read from the event, or Raise when a .get or
\* .replace is applied to a value that has none.  (meter, line 107, is only
\* logged; it reads the same `data.get("feature") or {}` as feature does.)
ParseEvent(event) ==
    LET data == Or(Get(event, "data"), EmptyDict)
    IN  IF ~HasGet(data) THEN Raise ELSE
    LET featObj == Or(Get(data, "feature"), EmptyDict)
    IN  IF ~HasGet(featObj) THEN Raise ELSE
    LET subj   == Or(Get(data, "subject"), EmptyDict)
        thrObj == Or(Get(data, "threshold"), EmptyDict)
        valObj == Or(Get(data, "value"), EmptyDict)
    IN  IF ~HasGet(thrObj) \/ ~HasGet(valObj) \/ ~HasGet(subj) THEN Raise ELSE
    LET subject_key == Or(Or(Get(subj, "id"), Get(subj, "key")), JStr(""))
    IN  IF Truthy(subject_key) /\ ~HasReplace(subject_key) THEN Raise ELSE
        [k |-> "locals",
         feature       |-> Or(Or(Get(featObj, "name"), Get(featObj, "key")),
                              JStr("Call Minutes")),
         subject       |-> subj,
         threshold_val |-> Get(thrObj, "value"),
         balance_left  |-> Get(valObj, "balance"),
         usage_val     |-> Get(valObj, "usage"),
         customer_key  |-> IF Truthy(subject_key)
                           THEN RemoveDashes(subject_key.s) ELSE ""]

\* line 125 dropping a "%" the value already ends with
percent_text_normalised(tv) ==
    LET s == PyStr(tv)
    IN  IF s # "" /\ SubSeq(s, Len(s), Len(s)) = "%" THEN s ELSE s \o "%"

\* line 125 with a placeholder for a missing value
percent_text_placeholder(tv) == IF tv = JNone THEN "?" ELSE PyStr(tv) \o "%"

\* line 125
percent_text(tv) == PyStr(tv) \o "%"

\* line 126
subject_line(proj_name, pt, feat, minutes_left_text) ==
    proj_name \o ": " \o pt \o " of " \o feat \o " used -- "
              \o minutes_left_text \o " left"

\* lines 129-139; used_text is nice_minutes(usage_val), or "" when usage_val
\* is None and the line is left out
text_body(proj_name, pt, feat, minutes_left_text, used_text) ==
    "Hi,\n\n"
    \o "Good to know: your project **" \o proj_name \o "** has now used "
    \o pt \o " of its " \o feat \o ".\n\n"
    \o "* Minutes left: " \o minutes_left_text \o "\n"
    \o (IF used_text = "" THEN "" ELSE "* Minutes used: " \o used_text \o "\n")
    \o "\nWhat can you do next?\n"
    \o "* Upgrade your plan or top-up minutes\n"
    \o "* Keep an eye on usage in your dashboard: " \o DASHBOARD_URL \o "\n"
    \o "* Need a hand? We're here to help: " \o SUPPORT_EMAIL \o "\n\n"
    \o "-- The Nabrah Team"

\* lines 142-191, the style attributes and the layout tables left out: the
\* interpolated values and the text around them
html_body(proj_name, pt, feat, minutes_left_text, used_text) ==
    "<!doctype html><html><head><title>Usage Alert</title></head><body>"
    \o "<h2>Heads up</h2>"
    \o "<p><strong>" \o proj_name \o "</strong> has used <strong>" \o pt
    \o "</strong> of its <strong>" \o feat \o "</strong>.</p>"
    \o "<div>" \o minutes_left_text \o " remaining</div>"
    \o (IF used_text = "" THEN ""
        ELSE "<div>Used: <strong>" \o used_text \o "</strong></div>")
    \o "<hr /><h3>What can I do?</h3><ul>"
    \o "<li>Upgrade your plan or top-up minutes</li>"
    \o "<li>Keep an eye on usage in your dashboard</li>"
    \o "<li>Need help? Reach out any time</li></ul>"
    \o "<a href=" \o DASHBOARD_URL \o ">Open dashboard</a>"
    \o "<p>Questions? Email us at <a href=mailto:" \o SUPPORT_EMAIL \o ">"
    \o SUPPORT_EMAIL \o "</a>.</p>"
    \o "<p>-- The Nabrah Team</p></body></html>"

\* lines 126-207: the params handed to resend.Emails.send, given the results
\* of pick_email, project_name_from, nice_minutes(balance_left),
\* nice_minutes(usage_val) and the percent text; Raise when one of them raised
Assemble(picked, proj, left, used, pt, feat) ==
    IF picked = Raise \/ proj = Raise \/ left = Raise \/ used = Raise THEN Raise
    ELSE [k |-> "mail",
          from    |-> FROM_ADDRESS,
          to      |-> <<picked.email>>,
          subject |-> subject_line(proj.s, pt, PyStr(feat), left.s),
          text    |-> text_body(proj.s, pt, PyStr(feat), left.s, used.s),
          html    |-> html_body(proj.s, pt, PyStr(feat), left.s, used.s)]

\* line 133 / 163: the "used" line is there only when usage_val is not None
UsedText(usage) == IF usage = JNone THEN JStr("") ELSE nice_minutes(usage)

\* lines 120-207 taking the address from the payload's subject.email first
ComposePayloadFirst(c, feat, subj, tv, bal, usage) ==
    Assemble(IF Truthy(Get(subj, "email"))
             THEN [email |-> Get(subj, "email"), src |-> "subject.email"]
             ELSE pick_email(c),
             project_name_from(c, subj), nice_minutes(bal), UsedText(usage),
             percent_text(tv), feat)

\* lines 120-207 reporting 100% once the balance is 0
ComposeExhausted(c, feat, subj, tv, bal, usage) ==
    Assemble(pick_email(c), project_name_from(c, subj), nice_minutes(bal),
             UsedText(usage),
             IF bal = JInt(0) THEN "100%" ELSE percent_text(tv), feat)

\* lines 120-207: the params handed to resend.Emails.send, or Raise when
\* pick_email, project_name_from or nice_minutes raises
Compose(c, feat, subj, tv, bal, usage) ==
    Assemble(pick_email(c), project_name_from(c, subj), nice_minutes(bal),
             UsedText(usage), percent_text(tv), feat)

-----------------------------------------------------------------------------
(* Inputs: the bodies the metering service may post and the answers the    *)
(* customer directory may give                                             *)

\* balances posted are 0 .. MaxBalance (and one non-integer, one string)
MaxBalance == 1

\* a dict field that may be absent
Opt(key, vals) == {EmptyFn} \cup {key :> v : v \in vals}

SubjectIds ==
    { EmptyFn,
      "id" :> JStr("abc-123"),
      "id" :> JStr("proj-0123456789"),
      "id" :> JInt(7),
      "key" :> JStr("--"),
      ("id" :> JStr("")) @@ ("key" :> JStr("k-1")) }

SubjectInline ==
    { EmptyFn,
      "email" :> JStr("a@x.com"),
      "metadata" :> JDict("email" :> JStr("m@x.com")),
      "displayName" :> JStr("Acme ") }

Subjects ==
    { JDict(i @@ e) : i \in SubjectIds, e \in SubjectInline }
    \cup { JStr("abc-123") }

Thresholds ==
    { JDict(("type" :> JStr("PERCENT")) @@ v) :
        v \in Opt("value", { JInt(90), JFloat(90, 0), JStr("90"), JStr("90%"),
                             JInt(75), JStr("abc") }) }
    \cup { JStr("90") }

UsageValues ==
    { JDict(b @@ h) :
        b \in Opt("balance", { JInt(n) : n \in 0..MaxBalance }
                             \cup { JFloat(2, 5), JStr("5") }),
        h \in Opt("hasAccess", { JBool(FALSE) }) }
    \cup { JDict(("balance" :> JInt(1)) @@ ("usage" :> u)) :
             u \in { JInt(1), JStr("many") } }

Features == { JDict(("name" :> JStr("API")) @@ ("key" :> JStr("calls"))) }

ThresholdData ==
    { JDict(s @@ t @@ v @@ f) :
        s \in Opt("subject", Subjects), t \in Opt("threshold", Thresholds),
        v \in Opt("value", UsageValues), f \in Opt("feature", Features) }
    \cup { JStr("oops") }

Events ==
    { JDict(("type" :> JStr(THRESHOLD_TYPE)) @@ d) : d \in Opt("data", ThresholdData) }
    \cup { JDict(("type" :> JStr(t)) @@ ("data" :> EmptyDict)) :
             t \in {"notification.test", "subscription.created"} }
    \cup { EmptyDict }

\* a body is not JSON at all, a JSON value that is no object, or an event
Bodies == { BadJson, JNone, JList(<<>>), JStr("ping"), JInt(1) } \cup Events

Customers ==
    { JDict(("key" :> JStr("abc123")) @@ p @@ m) :
        p \in Opt("primaryEmail", { JStr(""), JStr("b@x.com") }),
        m \in Opt("metadata", { JDict("email" :> JStr("c@x.com")),
                                JDict("tier" :> JStr("pro")),
                                JStr("vip") }) }
    \cup { JDict(("name" :> JStr(" Nabrah ")) @@ ("primaryEmail" :> JStr("b@x.com"))) }

DirectoryResponses ==
    { [exc |-> e, status |-> 0, json |-> BadJson] : e \in {"ConnectionError", "Timeout"} }
    \cup { [exc |-> "", status |-> 404, json |-> EmptyDict],
           [exc |-> "", status |-> 500, json |-> BadJson],
           [exc |-> "", status |-> 200, json |-> BadJson] }
    \cup { [exc |-> "", status |-> 200, json |-> j] :
             j \in Customers \cup { JNone, EmptyDict, JList(<<>>),
                                    JList(<<JDict("key" :> JStr("abc123"))>>) } }

-----------------------------------------------------------------------------
(* The state machine of one delivery *)

Init ==
    /\ pc = "idle"
    /\ body = JNone
    /\ feature = JNone
    /\ subject = JNone
    /\ threshold_val = JNone
    /\ balance_left = JNone
    /\ usage_val = JNone
    /\ customer_key = ""
    /\ customer = JNone
    /\ mail = NoMail
    /\ calls = <<>>
    /\ response = 0

\* the handler ends with this status
Respond(status) ==
    /\ pc' = "done"
    /\ response' = status

\* lines 120-207 with the customer c: compose and issue the send, or end
\* with 500 when composing raises; log is the outbound calls so far
ComposeAndSend(c, feat, subj, tv, bal, usage, log) ==
    LET m == Compose(c, feat, subj, tv, bal, usage)
    IN  IF m = Raise
        THEN /\ Respond(500)
             /\ mail' = NoMail
             /\ calls' = log
        ELSE /\ pc' = "send"
             /\ mail' = m
             /\ calls' = Append(log, Call("send", ""))
             /\ response' = response

\* lines 98-118: a delivery arrives with body b
Receive(b) ==
    /\ pc = "idle"
    /\ body' = b
    /\ IF b = BadJson THEN
           \* request.get_json(force=True) aborts with 400 Bad Request
           /\ Respond(400)
           /\ UNCHANGED <<feature, subject, threshold_val, balance_left,
                          usage_val, customer_key, customer, mail, calls>>
       ELSE IF ~HasGet(b) THEN
           \* event.get on a list, str, number or None: AttributeError
           /\ Respond(500)
           /\ UNCHANGED <<feature, subject, threshold_val, balance_left,
                          usage_val, customer_key, customer, mail, calls>>
       ELSE IF ~IsRelevant(b) THEN
           /\ Respond(200)
           /\ UNCHANGED <<feature, subject, threshold_val, balance_left,
                          usage_val, customer_key, customer, mail, calls>>
       ELSE LET l == ParseEvent(b) IN
           IF l = Raise THEN
               /\ Respond(500)
               /\ UNCHANGED <<feature, subject, threshold_val, balance_left,
                              usage_val, customer_key, customer, mail, calls>>
           ELSE
               /\ feature' = l.feature
               /\ subject' = l.subject
               /\ threshold_val' = l.threshold_val
               /\ balance_left' = l.balance_left
               /\ usage_val' = l.usage_val
               /\ customer_key' = l.customer_key
               /\ customer' = JNone
               /\ IF l.customer_key # ""
                  THEN /\ pc' = "lookup"
                       /\ calls' = Append(calls, Call("GET", CustomerUrl(l.customer_key)))
                       /\ UNCHANGED <<mail, response>>
                  ELSE ComposeAndSend(JNone, l.feature, l.subject, l.threshold_val,
                                      l.balance_left, l.usage_val, calls)

\* lines 39-54 and 118-207: requests.get comes back with r
LookupReturn(r) ==
    /\ pc = "lookup"
    /\ customer' = om_get_customer(r)
    /\ ComposeAndSend(om_get_customer(r), feature, subject, threshold_val,
                      balance_left, usage_val,
                      Append(calls, Call("GET returned", "")))
    /\ UNCHANGED <<body, feature, subject, threshold_val, balance_left,
                   usage_val, customer_key>>

\* lines 200-212 sending again when the send raised
SendReturnRetry(ok) ==
    /\ pc = "send"
    /\ IF ok
       THEN /\ calls' = Append(calls, Call("send returned", ""))
            /\ Respond(200)
       ELSE /\ calls' = calls \o <<Call("send raised", ""), Call("send", "")>>
            /\ UNCHANGED <<pc, response>>
    /\ UNCHANGED <<body, feature, subject, threshold_val, balance_left,
                   usage_val, customer_key, customer, mail>>

\* lines 200-212: resend.Emails.send returns (ok) or raises (~ok); the
\* except clause logs, and the handler returns 200 either way
SendReturn(ok) ==
    /\ pc = "send"
    /\ calls' = Append(calls, Call(IF ok THEN "send returned" ELSE "send raised", ""))
    /\ Respond(200)
    /\ UNCHANGED <<body, feature, subject, threshold_val, balance_left,
                   usage_val, customer_key, customer, mail>>

\* the request is over; nothing of it is kept for the next one
NextDelivery ==
    /\ pc = "done"
    /\ pc' = "idle"
    /\ body' = JNone
    /\ feature' = JNone
    /\ subject' = JNone
    /\ threshold_val' = JNone
    /\ balance_left' = JNone
    /\ usage_val' = JNone
    /\ customer_key' = ""
    /\ customer' = JNone
    /\ mail' = NoMail
    /\ calls' = <<>>
    /\ response' = 0

\* the metering service posts some body
Deliver == pc = "idle" /\ \E b \in Bodies : Receive(b)

\* the customer directory answers, or the GET fails
Directory == pc = "lookup" /\ \E r \in DirectoryResponses : LookupReturn(r)

\* the email provider answers, or the send raises
Provider == pc = "send" /\ \E ok \in BOOLEAN : SendReturn(ok)

Next ==
    \/ Deliver
    \/ Directory
    \/ Provider
    \/ NextDelivery

Spec == Init /\ [][Next]_vars

-----------------------------------------------------------------------------
(* Vocabulary of the properties *)

\* the body is an event (a JSON object) of the threshold type
IsThresholdEvent(b) == HasGet(b) /\ Get(b, "type") = JStr(THRESHOLD_TYPE)

\* its data, as line 105 reads it
EventData(b) == IF HasGet(b) THEN Or(Get(b, "data"), EmptyDict) ELSE EmptyDict

\* a field of its data, as lines 106-112 read it (d.get(key) or {})
DataField(b, key) ==
    IF HasGet(EventData(b)) THEN Or(Get(EventData(b), key), EmptyDict) ELSE EmptyDict

DictOrAbsent(v)   == v.k \in {"none", "dict"}
NumberOrAbsent(v) == v.k \in {"none", "int", "float"}

\* a threshold event in which everything but the subject is of the right shape
OnlySubjectInQuestion(b) ==
    /\ IsThresholdEvent(b)
    /\ DictOrAbsent(Get(b, "data"))
    /\ \A key \in {"feature", "threshold", "value"} : DictOrAbsent(Get(EventData(b), key))
    /\ NumberOrAbsent(Get(DataField(b, "value"), "balance"))
    /\ NumberOrAbsent(Get(DataField(b, "value"), "usage"))

\* the handler got past line 115 (feature is never None from then on)
Parsed == feature # JNone

\* the address the payload itself carries: subject.email, else
\* subject.metadata.email, else None
InlineEmail ==
    IF ~HasGet(subject) THEN JNone
    ELSE IF Truthy(Get(subject, "email")) THEN Get(subject, "email")
    ELSE LET meta == Get(subject, "metadata")
         IN  IF HasGet(meta) /\ Truthy(Get(meta, "email")) THEN Get(meta, "email")
             ELSE JNone

\* the directory record's own addresses
RecordPrimary == IF HasGet(customer) THEN Get(customer, "primaryEmail") ELSE JNone
RecordMeta ==
    IF HasGet(customer) /\ HasGet(Get(customer, "metadata"))
    THEN Get(Get(customer, "metadata"), "email") ELSE JNone

\* the posted value says the quota is exhausted
Exhausted ==
    \/ Get(DataField(body, "value"), "hasAccess") = JBool(FALSE)
    \/ balance_left = JInt(0)

\* the subject, text and html a mail carries when its percent text is pt
ExpectedSubject(pt) ==
    subject_line(project_name_from(customer, subject).s, pt, PyStr(feature),
                 nice_minutes(balance_left).s)
ExpectedText(pt) ==
    text_body(project_name_from(customer, subject).s, pt, PyStr(feature),
              nice_minutes(balance_left).s, UsedText(usage_val).s)
ExpectedHtml(pt) ==
    html_body(project_name_from(customer, subject).s, pt, PyStr(feature),
              nice_minutes(balance_left).s, UsedText(usage_val).s)

\* the mail of this delivery renders the percentage as pt
Renders(pt) ==
    /\ mail.subject = ExpectedSubject(pt)
    /\ mail.text = ExpectedText(pt)
    /\ mail.html = ExpectedHtml(pt)

\* s is digits only
RECURSIVE AllDigits(_)
AllDigits(s) ==
    \/ s = ""
    \/ /\ SubSeq(s, 1, 1) \in {"0", "1", "2", "3", "4", "5", "6", "7", "8", "9"}
       /\ AllDigits(SubSeq(s, 2, Len(s)))

\* a threshold value that is missing or does not read as a number (digits,
\* with or without a "%" after them)
Unparseable(tv) ==
    \/ tv.k = "none"
    \/ /\ tv.k = "str"
       /\ LET s == tv.s
              t == IF s # "" /\ SubSeq(s, Len(s), Len(s)) = "%"
                   THEN SubSeq(s, 1, Len(s) - 1) ELSE s
          IN  t = "" \/ ~AllDigits(t)

\* the four encodings of ninety percent
Ninety == { JInt(90), JFloat(90, 0), JStr("90"), JStr("90%") }

CountCalls(op) == Cardinality({ i \in DOMAIN calls : calls[i].op = op })

-----------------------------------------------------------------------------
(* Properties *)

\* C1 (as claimed): for a threshold event in which only the subject data and
\* the directory's answer are in question, recipient resolution never raises:
\* the handler ends with 200 having handed over a mail with one non-empty
\* address, which is the fallback address when the directory gave no email.
C1_ResolverTotal ==
    (pc = "done" /\ OnlySubjectInQuestion(body)) =>
        /\ response = 200
        /\ mail # NoMail
        /\ Len(mail.to) = 1
        /\ Truthy(mail.to[1])
        /\ (~Truthy(RecordPrimary) /\ ~Truthy(RecordMeta))
              => mail.to = <<JStr(FALLBACK_EMAIL)>>

\* C2 (as claimed): a threshold event whose payload carries a non-empty
\* subject.email (else subject.metadata.email) is mailed to that address.
C2_PayloadAddressWins ==
    (mail # NoMail /\ Truthy(InlineEmail)) => mail.to = <<InlineEmail>>

\* C2 (amended): the payload's address is not consulted.  A mail for an event
\* that carries one goes to the directory record's primaryEmail when that is
\* non-empty, else to the record's metadata.email when that is non-empty,
\* and to the fallback address when the directory gave neither (no record,
\* a failed lookup, a record without email): the payload's address does not
\* stand in for it.
C2_DirectoryAddressWins ==
    (mail # NoMail /\ Truthy(InlineEmail)) =>
        /\ Truthy(RecordPrimary) => mail.to = <<RecordPrimary>>
        /\ (~Truthy(RecordPrimary) /\ Truthy(RecordMeta)) => mail.to = <<RecordMeta>>
        /\ (~Truthy(RecordPrimary) /\ ~Truthy(RecordMeta))
              => mail.to = <<JStr(FALLBACK_EMAIL)>>

C2_Witness ==
    /\ pc = "send"
    /\ InlineEmail = JStr("a@x.com")
    /\ RecordPrimary = JStr("b@x.com")
    /\ mail.to = <<JStr("b@x.com")>>

\* C3 (as claimed): every request whose body parses as JSON is answered 200.
C3_Acknowledged ==
    (pc = "done" /\ body # BadJson) => response = 200

\* C4: an event whose type is neither the threshold type nor
\* "notification.test" ends at once with 200 and no outbound call: no
\* directory GET is issued and nothing is handed to the email sender.
C4_IgnoredNoOp ==
    (HasGet(body) /\ Get(body, "type") \notin
        {JStr(THRESHOLD_TYPE), JStr("notification.test")}) =>
        /\ pc = "done"
        /\ response = 200
        /\ calls = <<>>
        /\ mail = NoMail

C4_Witness ==
    /\ HasGet(body)
    /\ Get(body, "type") = JStr("subscription.created")
    /\ pc = "done"
    /\ response = 200

\* C5 (as claimed): a "notification.test" event has a mail handed to the
\* sender, addressed to the fallback address, and is answered 200.
C5_TestMailSent ==
    (pc = "done" /\ HasGet(body) /\ Get(body, "type") = JStr("notification.test")) =>
        /\ CountCalls("send") = 1
        /\ mail # NoMail
        /\ mail.to = <<JStr(FALLBACK_EMAIL)>>
        /\ response = 200

\* C5 (amended): a "notification.test" event is ignored like any other type
\* that is not the threshold type: nothing is handed to the email sender, no
\* directory GET is issued, and the answer is 200.
C5_TestIgnored ==
    (HasGet(body) /\ Get(body, "type") = JStr("notification.test")) =>
        /\ pc = "done"
        /\ CountCalls("send") = 0
        /\ CountCalls("GET") = 0
        /\ mail = NoMail
        /\ response = 200

C5_Witness ==
    /\ HasGet(body)
    /\ Get(body, "type") = JStr("notification.test")
    /\ pc = "done"
    /\ calls = <<>>

\* C6 (as claimed): with hasAccess false or balance 0 the subject and the
\* bodies render 100%, whatever threshold.value is.
C6_ExhaustedIsHundred ==
    (mail # NoMail /\ Exhausted) => Renders("100%")

\* C6 (amended): hasAccess and balance do not change the percentage: with
\* hasAccess false or balance 0 the subject and the bodies still render the
\* reported threshold.value followed by "%" (75 gives "75%").
C6_ExhaustedIsReported ==
    (mail # NoMail /\ Exhausted) => Renders(PyStr(threshold_val) \o "%")

C6_Witness ==
    /\ mail # NoMail
    /\ threshold_val = JInt(75)
    /\ Get(DataField(body, "value"), "hasAccess") = JBool(FALSE)
    /\ balance_left = JInt(0)
    /\ Renders("75%")

\* C7 (as claimed): the encodings 90, 90.0, "90" and "90%" give one and the
\* same percentage text: the mail composed for one of them is the mail any
\* other of them would have given.
C7_NinetyAllAlike ==
    (mail # NoMail /\ threshold_val \in Ninety) =>
        \A v \in Ninety : Renders(percent_text(v))

\* C7 (amended): the number 90 and the string "90" give the same text, "90%";
\* the number 90.0 gives "90.0%" and the string "90%" gives "90%%".
C7_NinetyByEncoding ==
    (mail # NoMail /\ threshold_val \in Ninety) =>
        /\ threshold_val \in {JInt(90), JStr("90")} => Renders("90%")
        /\ threshold_val = JFloat(90, 0) => Renders("90.0%")
        /\ threshold_val = JStr("90%") => Renders("90%%")

C7_Witness ==
    /\ mail # NoMail
    /\ threshold_val = JStr("90%")
    /\ Renders("90%%")

\* C8 (as claimed): a missing or unparseable threshold.value does not make
\* composition fail and is rendered as "?".
C8_UnknownIsQuestionMark ==
    (mail # NoMail /\ Unparseable(threshold_val)) =>
        (Renders("?") \/ Renders("?%"))

\* C8 (amended): a missing or unparseable threshold.value does not make
\* composition fail (a handler that fails after reading it fails on the
\* directory record, the balance or the usage), and it is rendered as the
\* value's Python text followed by "%": "None%" when missing, the string
\* itself and "%" otherwise ("abc%").
C8_UnknownIsPythonText ==
    /\ (mail # NoMail /\ threshold_val = JNone) => Renders("None%")
    /\ (mail # NoMail /\ threshold_val.k = "str" /\ Unparseable(threshold_val))
          => Renders(threshold_val.s \o "%")
    /\ (Parsed /\ Unparseable(threshold_val) /\ pc = "done" /\ response # 200)
          => \/ pick_email(customer) = Raise
             \/ nice_minutes(balance_left) = Raise
             \/ UsedText(usage_val) = Raise

C8_Witness ==
    /\ mail # NoMail
    /\ Parsed
    /\ threshold_val = JNone
    /\ Renders("None%")

\* C9: while one delivery is handled there is at most one directory GET and
\* at most one send, nothing is issued again after a failure, and a GET that
\* was issued has returned before the send is issued.
C9_SingleAttemptInOrder ==
    /\ CountCalls("GET") <= 1
    /\ CountCalls("send") <= 1
    /\ \A j \in DOMAIN calls :
          calls[j].op = "send" =>
             \A i \in 1..(j - 1) :
                calls[i].op = "GET" =>
                   \E m \in (i + 1)..(j - 1) : calls[m].op = "GET returned"
    /\ \A j \in DOMAIN calls :
          calls[j].op \in {"send raised", "send returned"} => j = Len(calls)

C9_Witness ==
    /\ pc = "done"
    /\ Len(calls) = 4
    /\ calls[1].op = "GET"
    /\ calls[2].op = "GET returned"
    /\ customer = JNone
    /\ calls[3].op = "send"
    /\ calls[4].op = "send raised"
    /\ response = 200

\* C10: the mail goes to exactly one address: the record's primaryEmail when
\* it is non-empty, else the record's metadata.email when metadata is a
\* mapping with a non-empty email, else the fallback address; with no record
\* (None or empty) the fallback address.
C10_RecordExtraction ==
    mail # NoMail =>
        /\ Len(mail.to) = 1
        /\ mail.to[1] =
              IF ~Truthy(customer) THEN JStr(FALLBACK_EMAIL)
              ELSE IF Truthy(RecordPrimary) THEN RecordPrimary
              ELSE IF Truthy(RecordMeta) THEN RecordMeta
              ELSE JStr(FALLBACK_EMAIL)

C10_Witness ==
    /\ mail # NoMail
    /\ RecordPrimary = JStr("")
    /\ RecordMeta = JStr("c@x.com")
    /\ mail.to = <<JStr("c@x.com")>>

====
